---- MODULE Spec2Model ----
(***************************************************************************)
(* The rnx16 connection type of the lcdproc glcd driver                    *)
(* (server/drivers/glcd-glcd-rnx16.c): a bit-banged serial transport over  *)
(* GPIO lines (spi_send), the paged blitter (glcd_rnx16_blit) and the      *)
(* session lifecycle (glcd_rnx16_init, glcd_rnx16_close).                  *)
(*                                                                         *)
(* Every gpiod_line_set_value call of spi_send and glcd_rnx16_blit is one  *)
(* step of the model; glcd_rnx16_init and glcd_rnx16_close are one step    *)
(* each.  The platform (libgpiod, the allocator) is the environment: its   *)
(* calls succeed or fail as the action parameters say.                     *)
(***************************************************************************)
EXTENDS Integers, Sequences, FiniteSets, TLC

\* ------------------------------------------------------------ constants

\* #define RNX16_WIDTH / RNX16_HEIGHT
RNX16_WIDTH == 128
RNX16_HEIGHT == 64

\* the page loop of glcd_rnx16_blit: for (page = 0; page < 2; page ++)
BlitPages == 2
\* the column loop of glcd_rnx16_blit: for (i = 0; i < 128; i++), 128 * page
BlitColumns == 128
\* unsigned int xpix = 4
xpix == 4

\* number of framebuffer contents the host collaborator draws
NumFrames == 2
\* line-drive calls the platform may fail on requested lines (SpecDriveFail)
MaxDriveFail == 1

\* the six lines of CT_picolcdgfx_data, and their offsets on gpiochip0
Lines == {"sdin", "sclk", "dc", "cs", "ctrl", "reset"}
Offset == [sdin |-> 54, sclk |-> 52, dc |-> 32, cs |-> 50, ctrl |-> 6, reset |-> 7]

\* what glcd_rnx16_init and glcd_rnx16_close acquire and release
Resources == {"ct_data", "backingstore", "chip"} \cup Lines

\* p->framebuf.size = (RNX16_HEIGHT / 8) * RNX16_WIDTH
FramebufSize == (RNX16_HEIGHT \div 8) * RNX16_WIDTH

\* ------------------------------------------------------------ unsigned char arithmetic

RECURSIVE BitAnd(_, _)
BitAnd(a, b) ==
    IF a = 0 \/ b = 0 THEN 0
    ELSE (a % 2) * (b % 2) + 2 * BitAnd(a \div 2, b \div 2)

RECURSIVE BitOr(_, _)
BitOr(a, b) ==
    IF a = 0 THEN b
    ELSE IF b = 0 THEN a
    ELSE (IF a % 2 = 1 \/ b % 2 = 1 THEN 1 ELSE 0) + 2 * BitOr(a \div 2, b \div 2)

\* conversion to unsigned char
U8(x) == x % 256

\* unsigned char mask = 0x80
MaskInit == 128

\* the bits taken least-significant first
MaskBitLsbFirst(m, b) == IF BitAnd(MaskInit \div m, b) # 0 THEN 1 ELSE 0

\* !!(mask & c)
MaskBit(m, b) == IF BitAnd(m, b) # 0 THEN 1 ELSE 0

\* the select line left at the data level for commands too
NotCmdStuck(isCmd) == IF isCmd THEN 1 ELSE 1

\* the select line following cmd instead of its negation
NotCmdInverted(isCmd) == IF isCmd THEN 1 ELSE 0

\* !cmd
NotCmd(isCmd) == IF isCmd THEN 0 ELSE 1

\* mask >>= 1
MaskShift(m) == U8(m \div 2)

\* ------------------------------------------------------------ memory

\* The contents the host collaborator puts in its framebuffer: FramebufSize
\* bytes each; content 0 is the calloc'ed buffer (all 0x00), content 1 holds
\* every byte value.  p->framebuf.data is modelled by the number of the
\* content it points at.
Frames == 0..(NumFrames - 1)

FrameTable ==
    [k \in Frames |-> [j \in 0..(FramebufSize - 1) |-> U8(k * (j + 1))]]

\* *((p->framebuf.data) + j) when the framebuffer holds content k
FrameByte(k, j) == FrameTable[k][j]

\* The backing store is modelled by the writes made to it, oldest first: each
\* write [n, frame, fill] set its first n bytes, to the bytes of framebuffer
\* content `frame`, or to `fill` when frame = -1.  A write wholly covered by
\* a later one is dropped.
Written(store, w) == SelectSeq(store, LAMBDA x : x.n > w.n) \o <<w>>

\* ct_data->backingstore[j]
RECURSIVE StoreByte(_, _)
StoreByte(store, j) ==
    LET w == store[Len(store)] IN
    IF j < w.n
    THEN (IF w.frame = -1 THEN w.fill ELSE FrameByte(w.frame, j))
    ELSE StoreByte(SubSeq(store, 1, Len(store) - 1), j)

\* memset(ct_data->backingstore, 0xFF, p->framebuf.size) on the fresh malloc
Memset255(size) == <<[n |-> size, frame |-> -1, fill |-> 255]>>

\* a copy of the transmitted pages only
MemcpySentOnly(dst, src, size) ==
    Written(dst, [n |-> BlitPages * BlitColumns, frame |-> src, fill |-> 0])

\* memcpy(ct_data->backingstore, p->framebuf.data, p->framebuf.size)
Memcpy(dst, src, size) == Written(dst, [n |-> size, frame |-> src, fill |-> 0])

\* ------------------------------------------------------------ state

VARIABLES
    ct_data,        \* p->ct_data: "NULL" or "alloc"
    chip,           \* ct_data->chip: "NULL" or "open"
    line,           \* ct_data-><line>: "NULL", "got" (not requested) or "req" (requested as output)
    bs_ptr,         \* ct_data->backingstore: "NULL" or "alloc"
    backingstore,   \* content of the backing store
    inverted,       \* ct_data->inverted
    framebuf,       \* p->framebuf: layout, px_width, px_height, size
    fb_data,        \* p->framebuf.data, owned by the host
    level,          \* output level of each line
    init_ret,       \* return value of the last glcd_rnx16_init, 1 before any
    crashed,        \* the process died on a NULL line handle
    drive_budget,   \* line-drive calls the platform may still fail on a requested line
    bpc,            \* position inside glcd_rnx16_blit, "none" outside
    page,           \* glcd_rnx16_blit: page
    col,            \* glcd_rnx16_blit: i
    spc,            \* position inside spi_send, "none" outside
    c,              \* spi_send: c
    cmd,            \* spi_send: cmd
    mask,           \* spi_send: mask
    \* ---- history
    held,           \* resources acquired and not yet released
    acquired,       \* resources acquired by the last glcd_rnx16_init
    double_free,    \* a resource was released while not held
    fault,          \* the acquisition step the platform failed in the last glcd_rnx16_init
    drive_err,      \* a gpiod_line_set_value call failed in the current call
    edges,          \* sdin level at each rising sclk edge of the current spi_send
    sendlog,        \* the gpiod_line_set_value calls of the current spi_send
    pages,          \* pages addressed by the current blit
    nsent,          \* data bytes sent by the current blit
    seq_ok,         \* the n-th data byte of the current blit was framebuffer byte n, for each n so far
    nwrites,        \* gpiod_line_set_value calls of the current blit
    last_ev,        \* the last gpiod_line_set_value call of the current blit
    cmds,           \* command bytes sent by the current blit, each with the data bytes sent before it
    rec,            \* whether the line provider keeps the record below
    prev_send,      \* c, cmd and sendlog of the spi_send before
    contrast        \* value and val of the last two glcd_picolcdgfx_set_contrast calls

ctvars == <<ct_data, chip, line, bs_ptr, inverted, framebuf>>
blitvars == <<bpc, page, col>>
sendvars == <<spc, c, cmd, mask>>
resvars == <<held, acquired, double_free, fault>>
blithist == <<pages, nsent, seq_ok, nwrites, last_ev, cmds>>
\* what only the environment sets
envvars == <<rec, contrast>>

vars == <<ct_data, chip, line, bs_ptr, backingstore, inverted, framebuf, fb_data,
          level, init_ret, crashed, drive_budget, bpc, page, col, spc, c, cmd, mask,
          held, acquired, double_free, fault, drive_err, edges, sendlog,
          pages, nsent, seq_ok, nwrites, last_ev, cmds, rec, prev_send, contrast>>

NoSend == [c |-> -1, cmd |-> FALSE, log |-> <<>>]

\* The state before glcd_rnx16_init: no connection context; the host has
\* calloc'ed its framebuffer; the lines are not driven by this process.
InitCommon ==
    /\ ct_data = "NULL"
    /\ chip = "NULL"
    /\ line = [l \in Lines |-> "NULL"]
    /\ bs_ptr = "NULL"
    /\ backingstore = <<>>
    /\ inverted = 0
    /\ framebuf = [layout |-> "unset", px_width |-> 0, px_height |-> 0, size |-> 0]
    /\ fb_data = 0
    /\ \E v \in 0..1 : level = [l \in Lines |-> v]
    /\ init_ret = 1
    /\ crashed = FALSE
    /\ bpc = "none" /\ page = 0 /\ col = 0
    /\ spc = "none" /\ c = 0 /\ cmd = FALSE /\ mask = 0
    /\ held = {} /\ acquired = {} /\ double_free = FALSE
    /\ fault = <<"none", "-">>
    /\ drive_err = FALSE
    /\ edges = <<>> /\ sendlog = <<>>
    /\ pages = <<>> /\ nsent = 0 /\ seq_ok = TRUE
    /\ nwrites = 0 /\ last_ev = -1
    /\ cmds = <<>>
    /\ prev_send = NoSend
    /\ contrast = <<>>

\* every line-drive call on a requested line succeeds; nothing is recorded
Init == InitCommon /\ rec = FALSE /\ drive_budget = 0

\* the line provider keeps the record of the transmit before
InitRec == InitCommon /\ rec = TRUE /\ drive_budget = 0

\* the platform may fail up to MaxDriveFail line-drive calls
InitDriveFail == InitCommon /\ rec = FALSE /\ drive_budget = MaxDriveFail

Idle == bpc = "none" /\ spc = "none" /\ ~crashed

\* the host calls blit and the transport only after an initialize that
\* returned 0 and before close
Usable == ct_data # "NULL" /\ init_ret = 0

\* ------------------------------------------------------------ the line provider

\* a recorded call gpiod_line_set_value(l, v)
Ev(l, v) == 2 * Offset[l] + v

\* What gpiod_line_set_value can do on a line: drive it ("ok"), return -1
\* ("fail": the line is not requested, or the platform fails the call), or
\* dereference a NULL handle (undefined: the call returns or the process dies).
DriveOutcomes(l) ==
    CASE line[l] = "req" -> IF drive_budget > 0 THEN {"ok", "fail"} ELSE {"ok"}
      [] line[l] = "got" -> {"fail"}
      [] OTHER -> {"fail", "crash"}

\* gpiod_line_set_value(ct_data->l, v) with outcome out, as spi_send and
\* glcd_rnx16_blit call it: the return value is ignored.
Drive(l, v, out) ==
    LET lv == IF out = "ok" THEN [level EXCEPT ![l] = v] ELSE level IN
    /\ out \in DriveOutcomes(l)
    /\ level' = lv
    /\ drive_err' = (drive_err \/ out # "ok")
    /\ drive_budget' = IF line[l] = "req" /\ out = "fail"
                       THEN drive_budget - 1 ELSE drive_budget
    /\ crashed' = (out = "crash")
    /\ edges' = IF l = "sclk" /\ level["sclk"] = 0 /\ lv["sclk"] = 1
                THEN Append(edges, level["sdin"]) ELSE edges
    /\ sendlog' = IF spc # "none" THEN Append(sendlog, Ev(l, v)) ELSE sendlog
    /\ nwrites' = IF bpc # "none" THEN nwrites + 1 ELSE nwrites
    /\ last_ev' = IF bpc # "none" THEN Ev(l, v) ELSE last_ev

\* ------------------------------------------------------------ spi_send

\* entry of spi_send(p, b, isCmd): unsigned char mask = 0x80
EnterSend(b, isCmd) ==
    /\ spc' = "cs"
    /\ c' = b
    /\ cmd' = isCmd
    /\ mask' = MaskInit
    /\ edges' = <<>>
    /\ sendlog' = <<>>

\* the level spi_send leaves chip-select at: gpiod_line_set_value(ct_data->cs, 1)
CsIdle == 1

\* the select line left low on return
DcIdleLow == NotCmd(TRUE)

\* the level spi_send leaves the select line at: gpiod_line_set_value(ct_data->dc, 1)
DcIdle == 1

\* while (mask)
SendLoop(m) == IF m # 0 THEN "sclk0" ELSE "cs1"

\* a call of the transport from outside the blitter
CallSend(b, isCmd) ==
    /\ Idle /\ Usable
    /\ EnterSend(b, isCmd)
    /\ UNCHANGED <<ctvars, backingstore, fb_data, level, init_ret, crashed,
                   drive_budget, blitvars, resvars, drive_err, blithist, envvars,
                   prev_send>>

\* spi_send_cmd(p, b)
spi_send_cmd(b) == CallSend(b, TRUE)

\* spi_send_data(p, b)
spi_send_data(b) == CallSend(b, FALSE)

SendFrame == <<ctvars, backingstore, fb_data, init_ret, blitvars, c, cmd,
               resvars, pages, nsent, seq_ok, cmds, envvars, prev_send>>

\* chip-select not asserted at the start of the byte
SendCsLowSkipped(out) ==
    /\ spc = "cs" /\ ~crashed
    /\ Drive("cs", CsIdle, out)
    /\ spc' = "dc"
    /\ UNCHANGED <<SendFrame, mask>>

\* gpiod_line_set_value(ct_data->cs, 0)
SendCsLow(out) ==
    /\ spc = "cs" /\ ~crashed
    /\ Drive("cs", 0, out)
    /\ spc' = "dc"
    /\ UNCHANGED <<SendFrame, mask>>

\* gpiod_line_set_value(ct_data->dc, !cmd)
SendDc(out) ==
    /\ spc = "dc" /\ ~crashed
    /\ Drive("dc", NotCmd(cmd), out)
    /\ spc' = SendLoop(mask)
    /\ UNCHANGED <<SendFrame, mask>>

\* the clock left high before the data line is written
SendSclkLowSkipped(out) ==
    /\ spc = "sclk0" /\ ~crashed
    /\ Drive("sclk", CsIdle, out)
    /\ spc' = "sdin"
    /\ UNCHANGED <<SendFrame, mask>>

\* gpiod_line_set_value(ct_data->sclk, 0)
SendSclkLow(out) ==
    /\ spc = "sclk0" /\ ~crashed
    /\ Drive("sclk", 0, out)
    /\ spc' = "sdin"
    /\ UNCHANGED <<SendFrame, mask>>

\* gpiod_line_set_value(ct_data->sdin, !!(mask & c))
SendSdin(out) ==
    /\ spc = "sdin" /\ ~crashed
    /\ Drive("sdin", MaskBit(mask, c), out)
    /\ spc' = "sclk1"
    /\ UNCHANGED <<SendFrame, mask>>

\* gpiod_line_set_value(ct_data->sclk, 1); mask >>= 1
SendSclkHigh(out) ==
    /\ spc = "sclk1" /\ ~crashed
    /\ Drive("sclk", 1, out)
    /\ mask' = MaskShift(mask)
    /\ spc' = SendLoop(mask')
    /\ UNCHANGED SendFrame

\* chip-select left asserted at the end of the byte
SendCsHighSkipped(out) ==
    /\ spc = "cs1" /\ ~crashed
    /\ Drive("cs", NotCmd(TRUE), out)
    /\ spc' = "dc1"
    /\ UNCHANGED <<SendFrame, mask>>

\* gpiod_line_set_value(ct_data->cs, 1)
SendCsHigh(out) ==
    /\ spc = "cs1" /\ ~crashed
    /\ Drive("cs", CsIdle, out)
    /\ spc' = "dc1"
    /\ UNCHANGED <<SendFrame, mask>>

\* gpiod_line_set_value(ct_data->dc, 1)
SendDcHigh(out) ==
    /\ spc = "dc1" /\ ~crashed
    /\ Drive("dc", DcIdle, out)
    /\ spc' = "ret"
    /\ UNCHANGED <<SendFrame, mask>>

\* the return of spi_send: its locals and the history of the call are gone
SendReturn ==
    /\ spc = "ret" /\ ~crashed
    /\ spc' = "none"
    /\ c' = 0 /\ cmd' = FALSE /\ mask' = 0
    /\ edges' = <<>>
    /\ sendlog' = <<>>
    /\ drive_err' = IF bpc = "none" THEN FALSE ELSE drive_err
    /\ prev_send' = IF rec /\ bpc = "none"
                    THEN [c |-> c, cmd |-> cmd, log |-> sendlog]
                    ELSE prev_send
    /\ UNCHANGED <<ctvars, backingstore, fb_data, level, init_ret, crashed,
                   drive_budget, blitvars, resvars, blithist, envvars>>

\* one step of spi_send
SendStep(out) ==
    \/ SendCsLow(out)
    \/ SendDc(out)
    \/ SendSclkLow(out)
    \/ SendSdin(out)
    \/ SendSclkHigh(out)
    \/ SendCsHigh(out)
    \/ SendDcHigh(out)

Outcomes == {"ok", "fail", "crash"}

\* ------------------------------------------------------------ glcd_rnx16_init

\* the order in which glcd_rnx16_init gets and requests the lines
LineIdx == [sdin |-> 1, sclk |-> 2, dc |-> 3, cs |-> 4, ctrl |-> 5, reset |-> 6]

\* the acquisition steps whose result glcd_rnx16_init tests
CheckedFaults == {<<"calloc", "-">>, <<"malloc", "-">>, <<"chip_open", "-">>}

\* the acquisition steps whose result glcd_rnx16_init does not test
LineFaults == {<<s, l>> : s \in {"get_line", "request_output"}, l \in Lines}

NoFault == <<"none", "-">>

\* the return value of glcd_rnx16_init when the platform fails step f:
\* -1 after a failed calloc, malloc or gpiod_chip_open_by_name, else 0
InitReturn(f) == IF f \in CheckedFaults THEN -1 ELSE 0

\* what glcd_rnx16_init releases before it returns -1: nothing
InitCleanup(got) == {}

\* glcd_rnx16_init(drvthis), the platform failing step f (NoFault: none).  A
\* line gpiod_chip_get_line could not get is NULL, and requesting it is
\* undefined: ub says whether that call returns ("fail") or the process dies
\* ("crash").
glcd_rnx16_init(f, ub) ==
    LET pastCalloc == f[1] # "calloc"
        pastMalloc == pastCalloc /\ f[1] # "malloc"
        pastChip == pastMalloc /\ f[1] # "chip_open"
        dies == f[1] = "get_line" /\ ub = "crash"
        lineAfter(l) ==
            IF ~pastChip THEN "NULL"
            ELSE IF f = <<"get_line", l>> THEN "NULL"
            ELSE IF f = <<"request_output", l>> THEN "got"
            ELSE IF dies /\ LineIdx[l] > LineIdx[f[2]] THEN "got"
            ELSE "req"
        got == (IF pastCalloc THEN {"ct_data"} ELSE {})
               \cup (IF pastMalloc THEN {"backingstore"} ELSE {})
               \cup (IF pastChip THEN {"chip"} ELSE {})
               \cup {l \in Lines : lineAfter(l) = "req"}
        ret == InitReturn(f)
        kept == IF ret < 0 THEN got \ InitCleanup(got) ELSE got
    IN
    /\ Idle
    /\ ct_data = "NULL"
    /\ ub \in (IF f[1] = "get_line" THEN {"fail", "crash"} ELSE {"fail"})
    /\ ct_data' = IF "ct_data" \in kept THEN "alloc" ELSE "NULL"
    /\ framebuf' = IF pastCalloc
                   THEN [layout |-> "FB_TYPE_VPAGED", px_width |-> RNX16_WIDTH,
                         px_height |-> RNX16_HEIGHT, size |-> FramebufSize]
                   ELSE framebuf
    /\ bs_ptr' = IF "backingstore" \in kept THEN "alloc" ELSE "NULL"
    /\ backingstore' = IF pastMalloc THEN Memset255(framebuf'.size) ELSE <<>>
    /\ inverted' = 0
    /\ chip' = IF "chip" \in kept THEN "open" ELSE "NULL"
    /\ line' = [l \in Lines |-> lineAfter(l)]
    /\ level' = [l \in Lines |-> IF lineAfter(l) = "req" THEN 1 ELSE level[l]]
    /\ crashed' = dies
    /\ init_ret' = IF dies THEN init_ret ELSE ret
    /\ held' = held \cup kept
    /\ acquired' = got
    /\ fault' = f
    /\ UNCHANGED <<fb_data, drive_budget, blitvars, sendvars, double_free,
                   drive_err, edges, sendlog, blithist, envvars, prev_send>>

\* ------------------------------------------------------------ glcd_rnx16_close

\* the context pointer left dangling
CloseCtDataKept == "alloc"

\* p->ct_data = NULL
CloseCtData == "NULL"

\* gpiod_chip_close(ct_data->chip) closes the chip and releases its lines
ChipCloseReleases == {"chip"} \cup {l \in Lines : line[l] = "req"}

\* glcd_rnx16_close(p): nothing when p->ct_data is NULL; else the chip is
\* closed if there is one, the backing store freed if there is one, the
\* context freed (its fields are gone with it) and p->ct_data set to NULL.
glcd_rnx16_close ==
    LET released ==
            (IF chip # "NULL" THEN ChipCloseReleases ELSE {})
            \cup (IF bs_ptr # "NULL" THEN {"backingstore"} ELSE {})
            \cup {"ct_data"}
    IN
    /\ Idle
    /\ IF ct_data # "NULL"
       THEN /\ ct_data' = CloseCtData
            /\ chip' = "NULL"
            /\ line' = [l \in Lines |-> "NULL"]
            /\ bs_ptr' = "NULL"
            /\ backingstore' = <<>>
            /\ inverted' = 0
            /\ held' = held \ released
            /\ double_free' = (double_free \/ ~(released \subseteq held))
       ELSE UNCHANGED <<ct_data, chip, line, bs_ptr, backingstore, inverted,
                        held, double_free>>
    /\ UNCHANGED <<framebuf, fb_data, level, init_ret, crashed, drive_budget,
                   blitvars, sendvars, acquired, fault, drive_err, edges,
                   sendlog, blithist, envvars, prev_send>>

\* ------------------------------------------------------------ the host

\* the host collaborator draws content k into its framebuffer between calls
HostDraw(k) ==
    /\ Idle
    /\ k # fb_data
    /\ fb_data' = k
    /\ UNCHANGED <<ctvars, backingstore, level, init_ret, crashed, drive_budget,
                   blitvars, sendvars, resvars, drive_err, edges, sendlog,
                   blithist, envvars, prev_send>>

\* ------------------------------------------------------------ glcd_rnx16_blit

\* for (page = 0; page < 2; page ++): the position after the loop test
PageLoop(pg) == IF pg < BlitPages THEN "cs" ELSE "memcpy"

\* the page command of the disabled update code: 0xb8 | line
PageCmdB8(pg) == U8(BitOr(184, pg))

\* 0xb0 + page
PageCmd(pg) == U8(176 + pg)

\* (xpix >> 4) | 0x10
ColHiCmd == U8(BitOr(xpix \div 16, 16))

\* xpix & 0xf
ColLoCmd == U8(BitAnd(xpix, 15))

\* the columns of a page taken in decreasing order
DataIndexReversed(pg, i) == (BlitColumns * pg) + ((BlitColumns - 1) - i)

\* (128 * page) + i
DataIndex(pg, i) == (BlitColumns * pg) + i

\* the byte taken from the backing store
DataByteFromStore(pg, i) == StoreByte(backingstore, DataIndex(pg, i))

\* *((p->framebuf.data) + (128 * page) + i)
DataByte(pg, i) == FrameByte(fb_data, DataIndex(pg, i))

BlitFrame == <<ctvars, fb_data, init_ret, resvars, envvars, prev_send>>

\* a blit step that calls spi_send and drives no line itself
BlitCallFrame == <<BlitFrame, backingstore, level, crashed, drive_budget,
                   drive_err, nwrites, last_ev>>

\* a blit step that drives a line itself
BlitDriveFrame == <<BlitFrame, backingstore, page, sendvars, pages, nsent, seq_ok,
                    cmds>>

\* entry of glcd_rnx16_blit(p)
CallBlit ==
    /\ Idle /\ Usable
    /\ bpc' = "cmdA6"
    /\ UNCHANGED <<BlitFrame, backingstore, level, crashed, drive_budget,
                   drive_err, page, col, sendvars, edges, sendlog, blithist>>

\* spi_send_cmd(p, 0xA6)
BlitCmdA6 ==
    /\ bpc = "cmdA6" /\ spc = "none" /\ ~crashed
    /\ EnterSend(166, TRUE)
    /\ cmds' = Append(cmds, <<166, nsent>>)
    /\ bpc' = "cmd40"
    /\ UNCHANGED <<BlitCallFrame, page, col, pages, nsent, seq_ok>>

\* spi_send_cmd(p, 0x40); page = 0
BlitCmd40 ==
    /\ bpc = "cmd40" /\ spc = "none" /\ ~crashed
    /\ EnterSend(64, TRUE)
    /\ cmds' = Append(cmds, <<64, nsent>>)
    /\ page' = 0
    /\ bpc' = PageLoop(page')
    /\ UNCHANGED <<BlitCallFrame, col, pages, nsent, seq_ok>>

\* gpiod_line_set_value(ct_data->cs, 0)
BlitCsLow(out) ==
    /\ bpc = "cs" /\ spc = "none" /\ ~crashed
    /\ Drive("cs", 0, out)
    /\ bpc' = "dc"
    /\ UNCHANGED <<BlitDriveFrame, col>>

\* gpiod_line_set_value(ct_data->dc, 0)
BlitDcLow(out) ==
    /\ bpc = "dc" /\ spc = "none" /\ ~crashed
    /\ Drive("dc", 0, out)
    /\ bpc' = "cmdPage"
    /\ UNCHANGED <<BlitDriveFrame, col>>

\* spi_send_cmd(p, 0xb0 + page)
BlitCmdPage ==
    /\ bpc = "cmdPage" /\ spc = "none" /\ ~crashed
    /\ EnterSend(PageCmd(page), TRUE)
    /\ cmds' = Append(cmds, <<PageCmd(page), nsent>>)
    /\ pages' = Append(pages, page)
    /\ bpc' = "cmdColHi"
    /\ UNCHANGED <<BlitCallFrame, page, col, nsent, seq_ok>>

\* spi_send_cmd(p, (xpix >> 4) | 0x10)
BlitCmdColHi ==
    /\ bpc = "cmdColHi" /\ spc = "none" /\ ~crashed
    /\ EnterSend(ColHiCmd, TRUE)
    /\ cmds' = Append(cmds, <<ColHiCmd, nsent>>)
    /\ bpc' = "cmdColLo"
    /\ UNCHANGED <<BlitCallFrame, page, col, pages, nsent, seq_ok>>

\* spi_send_cmd(p, xpix & 0xf)
BlitCmdColLo ==
    /\ bpc = "cmdColLo" /\ spc = "none" /\ ~crashed
    /\ EnterSend(ColLoCmd, TRUE)
    /\ cmds' = Append(cmds, <<ColLoCmd, nsent>>)
    /\ bpc' = "dcData"
    /\ UNCHANGED <<BlitCallFrame, page, col, pages, nsent, seq_ok>>

\* gpiod_line_set_value(ct_data->dc, 1); i = 0
BlitDcHigh(out) ==
    /\ bpc = "dcData" /\ spc = "none" /\ ~crashed
    /\ Drive("dc", 1, out)
    /\ col' = 0
    /\ bpc' = "data"
    /\ UNCHANGED BlitDriveFrame

\* i < 128: spi_send_data(p, *((p->framebuf.data) + (128 * page) + i)); i++
BlitData ==
    /\ bpc = "data" /\ spc = "none" /\ ~crashed
    /\ col < BlitColumns
    /\ EnterSend(DataByte(page, col), FALSE)
    /\ nsent' = nsent + 1
    /\ seq_ok' = (seq_ok /\ DataIndex(page, col) = nsent)
    /\ col' = col + 1
    /\ UNCHANGED <<BlitCallFrame, bpc, page, pages, cmds>>

\* i = 128: page ++, and the loop test
BlitNextPage ==
    /\ bpc = "data" /\ spc = "none" /\ ~crashed
    /\ ~(col < BlitColumns)
    /\ page' = U8(page + 1)
    /\ bpc' = PageLoop(page')
    /\ UNCHANGED <<BlitCallFrame, col, sendvars, edges, sendlog, pages, nsent,
                   seq_ok, cmds>>

\* a copy that also clears its source
BlitMemcpyClearsFrame ==
    /\ bpc = "memcpy" /\ spc = "none" /\ ~crashed
    /\ backingstore' = Memcpy(backingstore, fb_data, framebuf.size)
    /\ fb_data' = 0
    /\ bpc' = "ret"
    /\ UNCHANGED <<ctvars, init_ret, resvars, envvars, prev_send, level, crashed,
                   drive_budget, drive_err, page, col, sendvars, edges, sendlog,
                   blithist>>

\* memcpy(ct_data->backingstore, p->framebuf.data, p->framebuf.size)
BlitMemcpy ==
    /\ bpc = "memcpy" /\ spc = "none" /\ ~crashed
    /\ backingstore' = Memcpy(backingstore, fb_data, framebuf.size)
    /\ bpc' = "ret"
    /\ UNCHANGED <<BlitFrame, level, crashed, drive_budget, drive_err, page, col,
                   sendvars, edges, sendlog, blithist>>

\* the return of glcd_rnx16_blit: its locals and the history of the call are gone
BlitReturn ==
    /\ bpc = "ret" /\ spc = "none" /\ ~crashed
    /\ bpc' = "none"
    /\ page' = 0 /\ col' = 0
    /\ pages' = <<>> /\ nsent' = 0 /\ seq_ok' = TRUE
    /\ nwrites' = 0 /\ last_ev' = -1
    /\ cmds' = <<>>
    /\ drive_err' = FALSE
    /\ UNCHANGED <<BlitFrame, backingstore, level, crashed, drive_budget,
                   sendvars, edges, sendlog>>

\* one step of glcd_rnx16_blit outside spi_send
BlitStep(out) ==
    \/ BlitCmdA6
    \/ BlitCmd40
    \/ BlitCsLow(out)
    \/ BlitDcLow(out)
    \/ BlitCmdPage
    \/ BlitCmdColHi
    \/ BlitCmdColLo
    \/ BlitDcHigh(out)
    \/ BlitData
    \/ BlitNextPage
    \/ BlitMemcpy
    \/ BlitReturn

\* ------------------------------------------------------------ glcd_picolcdgfx_set_contrast

\* the literals of ((1000 - value) * (255 - 200)) / 1000 + 200
ContrastFull == 1000
ContrastHwMax == 255
ContrastHwMin == 200

\* int division, truncating toward zero (b > 0)
TruncDiv(a, b) == IF a >= 0 THEN a \div b ELSE -((-a) \div b)

\* the mapping without its inversion of the logical value
ContrastRawRising(value) ==
    TruncDiv(value * (ContrastHwMax - ContrastHwMin), ContrastFull) + ContrastHwMin

\* ((1000 - value) * (255 - 200)) / 1000 + 200, in int
ContrastRaw(value) ==
    TruncDiv((ContrastFull - value) * (ContrastHwMax - ContrastHwMin), ContrastFull)
        + ContrastHwMin

\* unsigned char val = ...
ContrastVal(value) == U8(ContrastRaw(value))

\* glcd_picolcdgfx_set_contrast(p, value): val is computed and nothing is
\* written to the device; the record keeps value and val of this call and of
\* the call before.
glcd_picolcdgfx_set_contrast(value) ==
    LET call == [value |-> value, val |-> ContrastVal(value)] IN
    /\ Idle
    /\ contrast' = IF contrast = <<>> THEN <<call>>
                   ELSE <<contrast[Len(contrast)], call>>
    /\ UNCHANGED <<ctvars, backingstore, fb_data, level, init_ret, crashed,
                   drive_budget, blitvars, sendvars, resvars, drive_err, edges,
                   sendlog, blithist, rec, prev_send>>

\* ------------------------------------------------------------ specifications

Bytes == 0..255

\* The driver on a platform whose lines can be had: initialize (failing at a
\* step it tests, or succeeding), close, the host drawing, the transport
\* called with any byte, blit.
Next ==
    \/ \E f \in CheckedFaults \cup {NoFault} : glcd_rnx16_init(f, "fail")
    \/ glcd_rnx16_close
    \/ Idle /\ \E k \in Frames : HostDraw(k)
    \/ Idle /\ Usable /\ \E b \in Bytes : spi_send_cmd(b)
    \/ Idle /\ Usable /\ \E b \in Bytes : spi_send_data(b)
    \/ CallBlit
    \/ \E out \in Outcomes : SendStep(out)
    \/ SendReturn
    \/ \E out \in Outcomes : BlitStep(out)

Spec == Init /\ [][Next]_vars

\* The transport called twice with the same byte, once as a command and once
\* as data, on a line provider that keeps the record of the call before.
PairGuard(b) == prev_send.c \in {-1, b}

NextPair ==
    \/ glcd_rnx16_init(NoFault, "fail")
    \/ glcd_rnx16_close
    \/ Idle /\ Usable /\ \E b \in Bytes : PairGuard(b) /\ spi_send_cmd(b)
    \/ Idle /\ Usable /\ \E b \in Bytes : PairGuard(b) /\ spi_send_data(b)
    \/ \E out \in Outcomes : SendStep(out)
    \/ SendReturn

SpecPair == InitRec /\ [][NextPair]_vars

\* The lifecycle on a platform where any acquisition step may fail, the
\* lines included, followed by blits.
NextAcq ==
    \/ \E f \in CheckedFaults \cup LineFaults \cup {NoFault}, ub \in {"fail", "crash"} :
          glcd_rnx16_init(f, ub)
    \/ glcd_rnx16_close
    \/ CallBlit
    \/ \E out \in Outcomes : SendStep(out)
    \/ SendReturn
    \/ \E out \in Outcomes : BlitStep(out)

SpecAcq == Init /\ [][NextAcq]_vars

\* Blits on a platform that may fail line-drive calls on requested lines.
NextDriveFail ==
    \/ glcd_rnx16_init(NoFault, "fail")
    \/ Idle /\ \E k \in Frames : HostDraw(k)
    \/ CallBlit
    \/ \E out \in Outcomes : SendStep(out)
    \/ SendReturn
    \/ \E out \in Outcomes : BlitStep(out)

SpecDriveFail == InitDriveFail /\ [][NextDriveFail]_vars

\* The host sets the contrast: any logical value 0..1000 first, then moving
\* it by at most one per call.
ContrastValues == 0..ContrastFull

ContrastMove(value) ==
    IF contrast = <<>> THEN TRUE
    ELSE contrast[Len(contrast)].value \in (value - 1)..(value + 1)

NextContrast ==
    \E value \in ContrastValues :
        ContrastMove(value) /\ glcd_picolcdgfx_set_contrast(value)

SpecContrast == Init /\ [][NextContrast]_vars

\* ------------------------------------------------------------ claims

\* bit n of byte b
Bit(b, n) == (b \div (2 ^ n)) % 2

\* the line and the level of a recorded call
EvOffset(e) == e \div 2
EvLevel(e) == e % 2

\* C1: when spi_send has made its last line write, the clock has risen exactly
\* 8 times during the call, and the data line at the k-th rising edge
\* (k = 0..7) was bit 7 - k of c: the bits go out most-significant first,
\* for a command and for data alike.
C1_MsbFirst ==
    spc = "ret" =>
        /\ Len(edges) = 8
        /\ \A k \in 0..7 : edges[k + 1] = Bit(c, 7 - k)

\* spi_send_cmd(0xA5) has clocked out 1,0,1,0,0,1,0,1
C1_Witness ==
    /\ spc = "ret" /\ bpc = "none"
    /\ c = 165 /\ cmd
    /\ edges = <<1, 0, 1, 0, 0, 1, 0, 1>>

\* C2: the recorded calls of spi_send(c, TRUE) and spi_send(c, FALSE), made
\* one after the other from the same idle levels, are equal call by call on
\* chip-select, clock and data, each with 8 rising clock edges; they differ
\* in one place only, the level written to the select line before the bits:
\* low for the command, high for the data.
C2_OnlySelectDiffers ==
    (spc = "ret" /\ bpc = "none" /\ prev_send.c = c /\ prev_send.cmd # cmd) =>
        LET asCmd == IF cmd THEN sendlog ELSE prev_send.log
            asData == IF cmd THEN prev_send.log ELSE sendlog
            differ == {k \in 1..Len(asCmd) : asCmd[k] # asData[k]}
        IN
        /\ Len(asCmd) = Len(asData)
        /\ Len(edges) = 8
        /\ \A k \in 1..Len(asCmd) : EvOffset(asCmd[k]) = EvOffset(asData[k])
        /\ Cardinality(differ) = 1
        /\ \A k \in differ :
              /\ asCmd[k] = Ev("dc", 0)
              /\ asData[k] = Ev("dc", 1)
              /\ k < Len(asCmd)

\* spi_send_data(0x5A) has run right after spi_send_cmd(0x5A)
C2_Witness ==
    /\ spc = "ret" /\ bpc = "none"
    /\ c = 90 /\ ~cmd
    /\ prev_send.c = 90 /\ prev_send.cmd
    /\ Len(sendlog) = 28 /\ Len(prev_send.log) = 28

\* a protocol call (spi_send_cmd, spi_send_data, glcd_rnx16_blit) is at its return
AtReturn == (spc = "ret") \/ (bpc = "ret" /\ spc = "none")

\* C3: after an initialize that succeeded, whenever no call is running and
\* whenever a protocol call is at its return, chip-select is high
\* (deasserted) and the select line is high (idle).
C3_IdleLevels ==
    (Usable /\ ~crashed /\ (Idle \/ AtReturn)) =>
        /\ level["cs"] = 1
        /\ level["dc"] = 1

\* a blit that followed a standalone transmit is at its return
C3_Witness ==
    /\ Usable /\ bpc = "ret" /\ spc = "none"
    /\ level["cs"] = 1 /\ level["dc"] = 1
    /\ nsent > 0

\* the pages that cover the frame: height / 8
PageCount == framebuf.px_height \div 8

\* C4: at the return of every blit, the first one after initialize included,
\* the pages addressed were 0, 1, ..., height/8 - 1 in this order, and the
\* data bytes sent were the (height/8) * width framebuffer bytes, each once,
\* in index order.
C4_EveryPageSent ==
    bpc = "ret" =>
        /\ pages = [k \in 1..PageCount |-> k - 1]
        /\ seq_ok
        /\ nsent = PageCount * framebuf.px_width

\* the backing store holds the framebuffer's bytes over the declared size
StoreEqualsFramebuf ==
    \A j \in 0..(framebuf.size - 1) :
        StoreByte(backingstore, j) = FrameByte(fb_data, j)

C6_FailureReported ==
    ~crashed =>
        /\ (fault # NoFault /\ init_ret # 1) => init_ret < 0
        /\ Usable => \A l \in Lines : line[l] = "req"

\* C7: when initialize has returned a failure, nothing it acquired in that
\* call is still held.
C7_AllOrNothing ==
    (init_ret < 0 /\ ~crashed) => (acquired \cap held = {})

\* C8: with initialize called only on a null context: no resource is ever
\* released while not held; while the context is null nothing is held; a
\* step from a null context to a null context (close on a null context, or
\* an initialize whose calloc failed) releases nothing and changes no line,
\* handle or backing store; and every step that releases anything releases
\* all that is held and leaves the context null.
C8_CloseReleasesOnce ==
    /\ [](~double_free)
    /\ []((ct_data = "NULL" /\ ~crashed) => held = {})
    /\ [][(ct_data = "NULL" /\ ct_data' = "NULL") =>
            UNCHANGED <<held, chip, line, bs_ptr, backingstore, level>>]_vars
    /\ [][(held' # held /\ held' \subseteq held) =>
            (ct_data # "NULL" /\ ct_data' = "NULL" /\ held' = {})]_vars

\* close has run after an initialize that failed at gpiod_chip_open_by_name
C8_Witness ==
    /\ ct_data = "NULL" /\ init_ret = -1
    /\ acquired = {"ct_data", "backingstore"}
    /\ held = {} /\ ~double_free

\* C9: once a line-drive call has failed in a blit, that blit does not write
\* the backing store.
C9_NoCopyAfterFailure ==
    [][(bpc # "none" /\ drive_err) => backingstore' = backingstore]_vars

\* the line writes of one spi_send
SendWrites == 2 + (3 * 8) + 2

\* the n-th line write (n = 0..27) of a transmit of byte b
SendWrite(b, isCmd, n) ==
    IF n = 0 THEN Ev("cs", 0)
    ELSE IF n = 1 THEN Ev("dc", IF isCmd THEN 0 ELSE 1)
    ELSE IF n = SendWrites - 2 THEN Ev("cs", 1)
    ELSE IF n = SendWrites - 1 THEN Ev("dc", 1)
    ELSE CASE (n - 2) % 3 = 0 -> Ev("sclk", 0)
           [] (n - 2) % 3 = 1 -> Ev("sdin", Bit(b, 7 - ((n - 2) \div 3)))
           [] OTHER -> Ev("sclk", 1)

\* the line writes of one page of a blit, and of a whole blit
PageWrites == 2 + (3 * SendWrites) + 1 + (BlitColumns * SendWrites)
BlitWrites == (2 * SendWrites) + (BlitPages * PageWrites)

\* the k-th line write (k = 0, 1, ...) of a blit of framebuffer content F:
\* 0xA6 and 0x40 as commands, then per page chip-select low, select low, the
\* three addressing commands, select high and the page's bytes as data
BlitWrite(k, F) ==
    IF k < 2 * SendWrites
    THEN SendWrite(IF k < SendWrites THEN 166 ELSE 64, TRUE, k % SendWrites)
    ELSE LET pg == (k - 2 * SendWrites) \div PageWrites
             r == (k - 2 * SendWrites) % PageWrites
             a == r - 2
             d == r - 3 - 3 * SendWrites
         IN
         IF r = 0 THEN Ev("cs", 0)
         ELSE IF r = 1 THEN Ev("dc", 0)
         ELSE IF a < 3 * SendWrites
         THEN SendWrite(<<176 + pg, 16, 4>>[(a \div SendWrites) + 1], TRUE,
                        a % SendWrites)
         ELSE IF d = -1 THEN Ev("dc", 1)
         ELSE SendWrite(FrameByte(F, 128 * pg + (d \div SendWrites)), FALSE,
                        d % SendWrites)

\* C10: every line write a blit makes is the one the framebuffer content
\* alone determines, whatever the backing store holds, and every blit makes
\* all of them: a blit of the content the backing store already holds
\* repeats the whole trace.
C10_TraceFromFramebuffer ==
    /\ (bpc # "none" /\ nwrites > 0) => last_ev = BlitWrite(nwrites - 1, fb_data)
    /\ bpc \in {"memcpy", "ret"} => nwrites = BlitWrites

\* a blit of the content the backing store already holds has made all its
\* line writes and is about to copy
C10_Witness ==
    /\ bpc = "memcpy" /\ spc = "none"
    /\ Len(backingstore) = 1 /\ backingstore[1].frame = fb_data
    /\ nwrites = BlitWrites
    /\ nsent = BlitPages * BlitColumns
    /\ last_ev = Ev("dc", 1)

\* the page-wide region pg of the framebuffer holds what the backing store holds
RegionClean(pg) ==
    \A i \in 0..(BlitColumns - 1) :
        StoreByte(backingstore, DataIndex(pg, i)) = FrameByte(fb_data, DataIndex(pg, i))

\* C11: inside a blit, before the copy, no page that has been addressed is
\* one whose framebuffer region equals the backing store's region (an equal
\* region gets no addressing command and no data byte); and at the return of
\* the blit the backing store equals the whole framebuffer.
C11_CleanRegionsSkipped ==
    /\ (bpc \notin {"none", "ret"} /\ ~crashed) =>
           \A k \in 1..Len(pages) : ~RegionClean(pages[k])
    /\ bpc = "ret" => StoreEqualsFramebuf

\* C12: for every logical value 0..1000 passed to set_contrast, val is within
\* 200..255 and is the int result itself (the conversion to unsigned char
\* does not wrap); it is 255 for value 0 and 200 for value 1000; and of two
\* calls, the one with the larger value computes a val that is not larger.
C12_ContrastMapping ==
    /\ \A k \in 1..Len(contrast) :
          contrast[k].value \in 0..1000 =>
              /\ contrast[k].val \in 200..255
              /\ contrast[k].val = ContrastRaw(contrast[k].value)
              /\ contrast[k].value = 0 => contrast[k].val = 255
              /\ contrast[k].value = 1000 => contrast[k].val = 200
    /\ (Len(contrast) = 2 /\ contrast[1].value <= contrast[2].value) =>
          contrast[2].val <= contrast[1].val

\* set_contrast(0) computed 255 and set_contrast(1) after it computed 254
C12_Witness ==
    /\ Len(contrast) = 2
    /\ contrast[1] = [value |-> 0, val |-> 255]
    /\ contrast[2] = [value |-> 1, val |-> 254]

\* a blit is between its chip-select write for a page and the last bit of
\* that page's third addressing command
Addressing ==
    \/ bpc \in {"dc", "cmdPage"}
    \/ bpc \in {"cmdColHi", "cmdColLo"}
    \/ bpc = "dcData" /\ spc \in {"cs", "dc", "sclk0", "sdin", "sclk1", "cs1"}

\* C13: from the chip-select write that opens a page until the last bit of
\* the page's third addressing command, chip-select is low.
C13_OneAssertion ==
    (Addressing /\ ~crashed) => level["cs"] = 0

\* C14: when spi_send has made its last line write, its line writes were, in
\* this order: chip-select low, the select line, 8 times (clock low, data,
\* clock high), chip-select high, select line high.  After a successful
\* initialize, in transmits and blits: `edges` gains one entry at every rising
\* clock edge and loses none while chip-select is low; it is empty when
\* chip-select goes low and has exactly 8 entries when chip-select goes high,
\* so every chip-select assertion holds exactly 8 rising clock edges.
C14_OneBytePerAssertion ==
    /\ [](spc = "ret" =>
            /\ sendlog = [n \in 1..SendWrites |-> SendWrite(c, cmd, n - 1)]
            /\ Len(edges) = 8)
    /\ [][(Usable /\ level["sclk"] = 0 /\ level'["sclk"] = 1) =>
            Len(edges') = Len(edges) + 1]_vars
    /\ [][(Usable /\ level["cs"] = 0 /\ level'["cs"] = 0) =>
            Len(edges') >= Len(edges)]_vars
    /\ [][(Usable /\ level["cs"] = 1 /\ level'["cs"] = 0) =>
            (Len(edges) = 0 /\ Len(edges') = 0)]_vars
    /\ [][(Usable /\ level["cs"] = 0 /\ level'["cs"] = 1) =>
            (Len(edges) = 8 /\ Len(edges') = 8)]_vars

\* inside a blit, the chip-select assertion the blitter opened for page 0 has
\* been closed by spi_send after the 8 bits of the page-select byte
C14_Witness ==
    /\ bpc = "cmdColHi" /\ spc = "dc1"
    /\ c = 176
    /\ level["cs"] = 1
    /\ Len(edges) = 8

\* the k-th command byte (k = 1, 2, ...) of a blit, with the number of data
\* bytes sent before it: 0xA6, 0x40, then for page 0, 1, ... the bytes
\* 0xB0 + page, 0x10, 0x04 after the width * page data bytes of the pages before
ExpectedCmd(k) ==
    IF k = 1 THEN <<166, 0>>
    ELSE IF k = 2 THEN <<64, 0>>
    ELSE LET pg == (k - 3) \div 3
             r == (k - 3) % 3
         IN <<(<<176 + pg, 16, 4>>)[r + 1], framebuf.px_width * pg>>

\* C15: inside a blit the command bytes sent so far are, in order, 0xA6,
\* 0x40 (once each, before any page addressing) and then per transmitted page
\* p (pages 0, 1, ... in order) the bytes 0xB0 + p, 0x10, 0x04, each sent when
\* exactly the data bytes of the pages before p have been sent; no data byte
\* of a page is sent before the page's three bytes; at the end of the blit
\* the commands are 2 plus 3 per page.
C15_CommandOrder ==
    bpc # "none" =>
        /\ \A k \in 1..Len(cmds) : cmds[k] = ExpectedCmd(k)
        /\ \A k \in 1..Len(pages) : pages[k] = k - 1
        /\ Len(cmds) <= 2 + 3 * Len(pages)
        /\ Len(cmds) >= 3 * Len(pages)
        /\ (Len(pages) > 0 /\ nsent > framebuf.px_width * (Len(pages) - 1)) =>
               Len(cmds) = 2 + 3 * Len(pages)
        /\ bpc \in {"memcpy", "ret"} =>
               (Len(pages) > 0 /\ Len(cmds) = 2 + 3 * Len(pages))

\* a blit has sent all its commands and data
C15_Witness ==
    /\ bpc = "memcpy" /\ spc = "none"
    /\ cmds = << <<166, 0>>, <<64, 0>>, <<176, 0>>, <<16, 0>>, <<4, 0>>,
                 <<177, 128>>, <<16, 128>>, <<4, 128>> >>
    /\ nsent = 256

\* bitwise exclusive or of two bytes
RECURSIVE BitXor(_, _)
BitXor(a, b) ==
    IF a = 0 THEN b
    ELSE IF b = 0 THEN a
    ELSE ((a + b) % 2) + 2 * BitXor(a \div 2, b \div 2)

\* C16: every data byte a blit sends is sent after the three addressing
\* commands of the page last addressed, p; it is the i-th data byte since
\* them, with i in 0..width-1 going up by one per byte, and is
\* framebuffer[width * p + i] XOR ct_data->inverted, sent as data; a page is
\* addressed, and the copy reached, only when every page addressed before
\* has had exactly width data bytes.
C16_PageData ==
    /\ [][(bpc # "none" /\ nsent' # nsent /\ bpc' # "none") =>
            LET p == pages[Len(pages)]
                i == nsent - framebuf.px_width * (Len(pages) - 1)
            IN
            /\ nsent' = nsent + 1
            /\ Len(pages) > 0 /\ pages' = pages
            /\ Len(cmds) = 2 + 3 * Len(pages)
            /\ i \in 0..(framebuf.px_width - 1)
            /\ spc' = "cs" /\ cmd' = FALSE
            /\ c' = BitXor(FrameByte(fb_data, framebuf.px_width * p + i), inverted)]_vars
    /\ [][(bpc # "none" /\ pages' # pages /\ bpc' # "none") =>
            nsent = framebuf.px_width * Len(pages)]_vars
    /\ [](bpc \in {"memcpy", "ret"} => nsent = framebuf.px_width * Len(pages))

\* the last column of page 1 of content 1 is being sent: framebuffer byte 255
C16_Witness ==
    /\ bpc = "data" /\ spc = "cs"
    /\ fb_data = 1 /\ inverted = 0
    /\ pages = <<0, 1>> /\ nsent = 256
    /\ c = FrameByte(1, 255) /\ ~cmd

\* the byte a blit sent last is a command byte: no data byte was sent after
\* the last of the command bytes
LastIsCommand == Len(cmds) > 0 /\ cmds[Len(cmds)][2] = nsent

\* C17: at every rising clock edge inside a blit, the select line is low if
\* the byte being clocked is a command byte (0xA6, 0x40 or one of a page's
\* three addressing bytes) and high if it is a pixel data byte, and the edge
\* leaves the select line as it is.
C17_SelectAtEdges ==
    [][(bpc # "none" /\ Usable /\ level["sclk"] = 0 /\ level'["sclk"] = 1) =>
          /\ level["dc"] = (IF LastIsCommand THEN 0 ELSE 1)
          /\ level'["dc"] = level["dc"]
          /\ LastIsCommand <=> cmd]_vars

\* the 8 bits of page 1's column-high command have been clocked with the
\* select line low
C17_Witness ==
    /\ bpc = "cmdColLo" /\ spc = "cs1"
    /\ pages = <<0, 1>> /\ nsent = 128
    /\ Len(edges) = 8
    /\ level["dc"] = 0 /\ level["sclk"] = 1

\* a transmit or a blit is running before or after the step
InCall == bpc # "none" \/ spc # "none" \/ bpc' # "none" \/ spc' # "none"

\* C18: no step of a transmit or of a blit changes the framebuffer's content,
\* its size or its geometry fields, nor any field of the connection context;
\* the backing store is changed by blit's copy step only.
C18_FramebufferReadOnly ==
    [][InCall =>
          /\ fb_data' = fb_data
          /\ framebuf' = framebuf
          /\ UNCHANGED <<ct_data, chip, line, bs_ptr, inverted>>
          /\ backingstore' # backingstore => (bpc = "memcpy" /\ bpc' = "ret")]_vars

\* a blit of content 1 has copied it to the backing store and is at its
\* return, the framebuffer and its descriptor as the host and init left them
C18_Witness ==
    /\ bpc = "ret" /\ spc = "none"
    /\ fb_data = 1
    /\ backingstore = <<[n |-> FramebufSize, frame |-> 1, fill |-> 0]>>
    /\ framebuf = [layout |-> "FB_TYPE_VPAGED", px_width |-> RNX16_WIDTH,
                   px_height |-> RNX16_HEIGHT, size |-> FramebufSize]

\* the step is a gpiod_line_set_value call on line l made inside spi_send
WritesLine(l) ==
    /\ Len(sendlog') = Len(sendlog) + 1
    /\ EvOffset(sendlog'[Len(sendlog')]) = Offset[l]

\* C19: after a successful initialize, in transmits and blits, every write of
\* the data line is made while the clock is low, and the data line changes
\* level only in a step that finds and leaves the clock low: between a rising
\* clock edge and the next falling edge the data line keeps its level.
C19_DataStableWhileClockHigh ==
    [][Usable =>
          /\ WritesLine("sdin") => (level["sclk"] = 0 /\ level'["sclk"] = 0)
          /\ level'["sdin"] # level["sdin"] =>
                 (level["sclk"] = 0 /\ level'["sclk"] = 0)
          /\ (level["sclk"] = 1 /\ level'["sclk"] = 1) =>
                 level'["sdin"] = level["sdin"]]_vars

\* the first bit of spi_send_cmd(0x7F) has pulled the data line low while the
\* clock is low
C19_Witness ==
    /\ bpc = "none" /\ spc = "sclk1"
    /\ c = 127 /\ cmd /\ mask = 128
    /\ level["sdin"] = 0 /\ level["sclk"] = 0

\* C20: after a successful initialize, in transmits and blits, every write of
\* the clock line and every change of its level is made with chip-select low
\* before and after the step; the clock keeps its level while chip-select is
\* high; and the clock is high whenever no byte is being clocked (no call
\* running, or spi_send before its first or after its last bit).
C20_ClockInsideAssertion ==
    /\ [][Usable =>
            /\ WritesLine("sclk") => (level["cs"] = 0 /\ level'["cs"] = 0)
            /\ level'["sclk"] # level["sclk"] =>
                   (level["cs"] = 0 /\ level'["cs"] = 0)
            /\ (level["cs"] = 1 /\ level'["cs"] = 1) =>
                   level'["sclk"] = level["sclk"]]_vars
    /\ []((Usable /\ ~crashed /\ spc \in {"none", "cs", "dc", "cs1", "dc1", "ret"}) =>
             level["sclk"] = 1)

\* inside a blit the clock has gone low for the first bit of the second data
\* byte, chip-select low
C20_Witness ==
    /\ bpc = "data" /\ spc = "sdin"
    /\ nsent = 2 /\ mask = 128
    /\ level["sclk"] = 0 /\ level["cs"] = 0

====
